---- MODULE Spec2Model ----
(***************************************************************************)
(* The ordering client of lunch_bot (src/lunch_bot/order.py): the session  *)
(* manager _login with the cookie file, the validity probe, the token      *)
(* extractor, place_order / cancel_order / get_order_status /              *)
(* get_monthly_orders, against an upstream server whose responses are      *)
(* chosen nondeterministically.                                            *)
(*                                                                         *)
(* Python strings the code works on character by character (menu type,     *)
(* date, Location header, decimal quantities) are sequences of one         *)
(* character strings; opaque strings (tokens, cookie names and values) are *)
(* TLA+ strings.                                                           *)
(***************************************************************************)
EXTENDS Integers, Sequences, FiniteSets, TLC

(* ------------------------------ bounds -------------------------------- *)

\* calls of the public API made one after the other by one process
MaxCalls == 2
\* the largest quantity a caller orders
MaxQty == 1

(* ------------------------- character strings -------------------------- *)

UpperChars == <<"A","B","C","D","E","F","G","H","I","J","K","L","M",
                "N","O","P","Q","R","S","T","U","V","W","X","Y","Z">>
LowerChars == <<"a","b","c","d","e","f","g","h","i","j","k","l","m",
                "n","o","p","q","r","s","t","u","v","w","x","y","z">>
DigitChars == <<"0","1","2","3","4","5","6","7","8","9">>
\* str.isspace() characters that occur in the inputs
SpaceChars == {" ", "\t", "\n"}

IsDigit(c) == \E i \in 1..10 : DigitChars[i] = c
DigitVal(c) == (CHOOSE i \in 1..10 : DigitChars[i] = c) - 1

\* str.lower() of one character
LowerChar(c) ==
  IF \E i \in 1..26 : UpperChars[i] = c
    THEN LowerChars[CHOOSE i \in 1..26 : UpperChars[i] = c]
    ELSE c

\* str.lower()
lower(s) == [i \in 1..Len(s) |-> LowerChar(s[i])]

\* str.strip()
strip(s) ==
  LET keep == {i \in 1..Len(s) : s[i] \notin SpaceChars}
  IN IF keep = {} THEN <<>>
     ELSE LET lo == CHOOSE i \in keep : \A j \in keep : i <= j
              hi == CHOOSE i \in keep : \A j \in keep : j <= i
          IN SubSeq(s, lo, hi)

\* str.replace(a, b) for single characters
replace(s, a, b) == [i \in 1..Len(s) |-> IF s[i] = a THEN b ELSE s[i]]

\* str.endswith(t)
endswith(s, t) ==
  /\ Len(t) <= Len(s)
  /\ SubSeq(s, Len(s) - Len(t) + 1, Len(s)) = t

\* t in s
contains(s, t) ==
  \E i \in 1..(Len(s) - Len(t) + 1) : SubSeq(s, i, i + Len(t) - 1) = t

\* the positions of the separator c in s; s.split(c) has one part more
SepPositions(s, c) == {i \in 1..Len(s) : s[i] = c}

\* len(s.split(c))
SplitCount(s, c) == Cardinality(SepPositions(s, c)) + 1

\* s.split(c)[0]
SplitFirst(s, c) ==
  LET ps == SepPositions(s, c)
  IN IF ps = {} THEN s
     ELSE SubSeq(s, 1, (CHOOSE i \in ps : \A j \in ps : i <= j) - 1)

\* str(n) for n >= 0: the decimal digits
RECURSIVE str(_)
str(n) ==
  IF n < 10 THEN <<DigitChars[n + 1]>>
  ELSE str(n \div 10) \o <<DigitChars[(n % 10) + 1]>>

\* the value of a string of decimal digits
RECURSIVE DigitsValue(_)
DigitsValue(s) ==
  IF s = <<>> THEN 0
  ELSE 10 * DigitsValue(SubSeq(s, 1, Len(s) - 1)) + DigitVal(s[Len(s)])

\* int(s): surrounding whitespace, an optional sign, digits with single
\* underscores between them; anything else is a ValueError (ok = FALSE)
int(s) ==
  LET t == strip(s)
      signed == t # <<>> /\ t[1] \in {"+", "-"}
      body == IF signed THEN Tail(t) ELSE t
      digits == SelectSeq(body, IsDigit)
      wellFormed ==
        /\ body # <<>>
        /\ \A i \in 1..Len(body) : IsDigit(body[i]) \/ body[i] = "_"
        /\ IsDigit(body[1]) /\ IsDigit(body[Len(body)])
        /\ \A i \in 1..(Len(body) - 1) : ~(body[i] = "_" /\ body[i + 1] = "_")
  IN IF ~wellFormed THEN [ok |-> FALSE, val |-> 0]
     ELSE [ok |-> TRUE,
           val |-> IF signed /\ t[1] = "-" THEN 0 - DigitsValue(digits)
                   ELSE DigitsValue(digits)]

(* ------------------------------ tables -------------------------------- *)

\* the Japanese characters of the tables, each one character, named by its
\* code point
C_WA == "U+548C"
C_FUU == "U+98A8"
K_RA == "U+30E9"
K_N == "U+30F3"
K_CHI == "U+30C1"
H_RA == "U+3089"
H_N == "U+3093"
H_CHI == "U+3061"
H_A == "U+3042"
H_I == "U+3044"
H_SO == "U+305D"
H_NO == "U+306E"
C_TA == "U+4ED6"

\* MENU_TYPE_MAP: the alias keys and their slot index
MENU_TYPE_MAP ==
  ( <<C_WA,C_FUU>>                 :> 0 ) @@
  ( <<C_WA,C_FUU,K_RA,K_N,K_CHI>>  :> 0 ) @@
  ( <<C_WA,C_FUU,H_RA,H_N,H_CHI>>  :> 0 ) @@
  ( <<"w","a","f","u">>           :> 0 ) @@
  ( <<H_A,H_I,K_RA,K_N,K_CHI>>  :> 1 ) @@
  ( <<H_A,H_I>>                 :> 1 ) @@
  ( <<"a","i">>                   :> 1 ) @@
  ( <<H_SO,H_NO,C_TA>>            :> 2 ) @@
  ( <<"o","t","h","e","r">>       :> 2 )

\* MENU_INDEX_NAME
MENU_INDEX_NAME ==
  ( 0 :> <<C_WA,C_FUU,K_RA,K_N,K_CHI>> ) @@
  ( 1 :> <<H_A,H_I,K_RA,K_N,K_CHI>> ) @@
  ( 2 :> <<H_SO,H_NO,C_TA>> )

(* --------------------------- pure helpers ----------------------------- *)

\* a mutant of _resolve_menu_index: the aliases in any case and the three
\* one-digit numerals, with nothing stripped and nothing else read as a number
_resolve_menu_index_strict(menu_type) ==
  IF lower(menu_type) \in DOMAIN MENU_TYPE_MAP
    THEN [ok |-> TRUE, val |-> MENU_TYPE_MAP[lower(menu_type)]]
  ELSE IF menu_type \in {<<"0">>, <<"1">>, <<"2">>}
    THEN [ok |-> TRUE, val |-> DigitVal(menu_type[1])]
  ELSE [ok |-> FALSE, val |-> 0]

\* _resolve_menu_index: [ok, val]; ok = FALSE is the ValueError
_resolve_menu_index(menu_type) ==
  LET stripped == strip(menu_type)
      key == IF lower(stripped) \in DOMAIN MENU_TYPE_MAP
               THEN lower(stripped) ELSE stripped
      n == int(menu_type)
  IN IF key \in DOMAIN MENU_TYPE_MAP
       THEN [ok |-> TRUE, val |-> MENU_TYPE_MAP[key]]
     ELSE IF n.ok /\ n.val \in {0, 1, 2}
       THEN [ok |-> TRUE, val |-> n.val]
     ELSE [ok |-> FALSE, val |-> 0]

\* _normalize_date: [ok, val]; ok = FALSE is the ValueError
_normalize_date(date_str) ==
  LET normalized == replace(date_str, "-", "/")
  IN IF SplitCount(normalized, "/") # 3 \/ Len(SplitFirst(normalized, "/")) # 4
       THEN [ok |-> FALSE, val |-> <<>>]
       ELSE [ok |-> TRUE, val |-> normalized]

(* ------------------------ cookies and the file ------------------------ *)

\* the name of the authentication cookie _login looks for
AUTH == ".ASPXAUTH"
SESSION_ID == "ASP.NET_SessionId"
HOST == "sumiyoshi.azurewebsites.net"

Cookie(n, v) == [name |-> n, value |-> v, domain |-> HOST, path |-> "/"]

\* the jar of a client: cookies in insertion order, one per (domain, path, name)
CookieKey(c) == <<c.domain, c.path, c.name>>

\* client.cookies.set(name, value, domain, path)
JarSet(jar, c) ==
  IF \E i \in 1..Len(jar) : CookieKey(jar[i]) = CookieKey(c)
    THEN [i \in 1..Len(jar) |->
            IF CookieKey(jar[i]) = CookieKey(c) THEN c ELSE jar[i]]
    ELSE Append(jar, c)

CookieFields == {"name", "value", "domain", "path"}

\* a mutant of Entry: the domain written is always the host of the site
Entry_host_only(c) ==
  [obj |-> TRUE, keys |-> CookieFields,
   name |-> c.name, value |-> c.value, domain |-> HOST, path |-> c.path]

\* one element of the "cookies" list of the file: a JSON object with some of
\* the four keys, or (obj = FALSE) a JSON value that is no object
Entry(c) ==
  [obj |-> TRUE, keys |-> CookieFields,
   name |-> c.name, value |-> c.value, domain |-> c.domain, path |-> c.path]
EntryWithout(c, k) == [Entry(c) EXCEPT !.keys = CookieFields \ {k}]
NonObjectEntry ==
  [obj |-> FALSE, keys |-> {}, name |-> "", value |-> "", domain |-> "", path |-> ""]

\* COOKIE_FILE: absent, or its text: "invalid" is no JSON (as are "empty",
\* a file of length 0, and "mixed", a text followed by the end of a longer
\* one), "array" is JSON
\* whose top level is a list, "object_null" is an object whose "cookies" is
\* null, "object" is an object whose "cookies" is the list `cookies`
NoFile == [exists |-> FALSE, text |-> "none", cookies |-> <<>>]
FileOf(text, cookies) == [exists |-> TRUE, text |-> text, cookies |-> cookies]

\* the loop of _load_cookies over the entries: [jar, exc], exc the exception
\* that ended it ("" when it ran to the end)
RECURSIVE LoadEntries(_, _)
LoadEntries(entries, jar) ==
  IF entries = <<>> THEN [jar |-> jar, exc |-> ""]
  ELSE LET c == Head(entries)
       IN IF ~c.obj THEN [jar |-> jar, exc |-> "TypeError"]
          ELSE IF c.keys # CookieFields THEN [jar |-> jar, exc |-> "KeyError"]
          ELSE LoadEntries(Tail(entries),
                 JarSet(jar, [name |-> c.name, value |-> c.value,
                              domain |-> c.domain, path |-> c.path]))

\* _load_cookies: [ret, exc, jar]; exc # "" is the exception it lets escape
\* (only json.JSONDecodeError and KeyError are caught)
_load_cookies(f, jar) ==
  IF ~f.exists THEN [ret |-> FALSE, exc |-> "", jar |-> jar]
  ELSE IF f.text \in {"invalid", "empty", "mixed"}
    THEN [ret |-> FALSE, exc |-> "", jar |-> jar]
  ELSE IF f.text = "array" THEN [ret |-> FALSE, exc |-> "AttributeError", jar |-> jar]
  ELSE IF f.text = "object_null" THEN [ret |-> FALSE, exc |-> "TypeError", jar |-> jar]
  ELSE LET r == LoadEntries(f.cookies, jar)
       IN IF r.exc = "" THEN [ret |-> TRUE, exc |-> "", jar |-> r.jar]
          ELSE IF r.exc = "KeyError" THEN [ret |-> FALSE, exc |-> "", jar |-> r.jar]
          ELSE [ret |-> FALSE, exc |-> r.exc, jar |-> r.jar]

\* a mutant of _save_cookies: the list of cookies is written empty
_save_cookies_empty(jar) == FileOf("object", <<>>)

\* _save_cookies: the text written over COOKIE_FILE
_save_cookies(jar) ==
  FileOf("object", [i \in 1..Len(jar) |-> Entry(jar[i])])

\* os.getenv(name, default) on the environment of the process
getenv(e, name, default) == IF e[name] = "" THEN default ELSE e[name]

\* _get_credentials: [ok, val]; ok = FALSE is the RuntimeError
_get_credentials(e) ==
  LET company_cd == "000748"
      user_cd == getenv(e, "BENTO_USER_CD", "")
      password == getenv(e, "BENTO_PASSWORD", "")
  IN IF user_cd = "" \/ password = ""
       THEN [ok |-> FALSE, val |-> <<>>]
       ELSE [ok |-> TRUE, val |-> <<company_cd, user_cd, password>>]

(* ----------------------------- responses ------------------------------ *)

\* a page: the hidden inputs named __RequestVerificationToken in document
\* order, each with its attribute order and its value; the matches of the
\* previous-quantity pattern; the rows of the monthly table
Tag(order, value) == [order |-> order, value |-> value]
Page(tags, prev, rows) == [tags |-> tags, prev |-> prev, rows |-> rows]
EmptyPage == Page(<<>>, <<>>, <<>>)

\* what a request ends in: a transport failure (httpx.TransportError) or a
\* response with status, Location header, page and Set-Cookie of AUTH
TransportFailure ==
  [failed |-> TRUE, status_code |-> 0, location |-> <<>>, html |-> EmptyPage,
   set_auth |-> FALSE]
Response(status, location, html, set_auth) ==
  [failed |-> FALSE, status_code |-> status, location |-> location,
   html |-> html, set_auth |-> set_auth]
NoResponse == Response(0, <<>>, EmptyPage, FALSE)

\* Response.is_success, which raise_for_status tests
is_success(r) == 200 <= r.status_code /\ r.status_code <= 299

\* _extract_token: [ok, val]; ok = FALSE is the RuntimeError. The pattern
\* with name before value is searched in the whole page first.
_extract_token(html) ==
  LET nv == SelectSeq(html.tags, LAMBDA t : t.order = "name_value")
      vn == SelectSeq(html.tags, LAMBDA t : t.order = "value_name")
  IN IF nv # <<>> THEN [ok |-> TRUE, val |-> nv[1].value]
     ELSE IF vn # <<>> THEN [ok |-> TRUE, val |-> vn[1].value]
     ELSE [ok |-> FALSE, val |-> ""]

\* the redirect statuses _is_session_valid inspects
RedirectStatuses == {301, 302, 303, 307, 308}

S_ROOT == <<"/">>
S_LOGIN == <<"l","o","g","i","n">>

\* a mutant of _is_session_valid: only a Location that is the root path or
\* names the login page makes a redirect invalid, for every 3xx status
_is_session_valid_3xx(r) ==
  IF r.failed THEN FALSE
  ELSE IF r.status_code = 200 THEN TRUE
  ELSE IF 300 <= r.status_code /\ r.status_code <= 399
    THEN ~(lower(r.location) = S_ROOT \/ contains(lower(r.location), S_LOGIN))
  ELSE FALSE

\* a mutant of _is_session_valid: a transport failure or an unexpected
\* status is taken for a live session
_is_session_valid_lenient(r) ==
  IF r.failed THEN TRUE
  ELSE IF r.status_code = 200 THEN TRUE
  ELSE IF r.status_code \in RedirectStatuses
    THEN LET location == lower(r.location)
         IN ~(location = S_ROOT \/ endswith(location, S_ROOT)
                \/ contains(location, S_LOGIN))
  ELSE r.status_code >= 500

\* _is_session_valid on the outcome of its GET /Order
_is_session_valid(r) ==
  IF r.failed THEN FALSE
  ELSE IF r.status_code = 200 THEN TRUE
  ELSE IF r.status_code \in RedirectStatuses
    THEN LET location == lower(r.location)
         IN ~(location = S_ROOT \/ endswith(location, S_ROOT)
                \/ contains(location, S_LOGIN))
  ELSE FALSE

(* --------------------------- status parsing --------------------------- *)

K_ME == "U+30E1"
K_NI == "U+30CB"
K_XYU == "U+30E5"
K_BAR == "U+30FC"

DayOrderStatus(date, orders, holiday, holiday_label) ==
  [kind |-> "DayOrderStatus", date |-> date, orders |-> orders,
   holiday |-> holiday, holiday_label |-> holiday_label]

\* a mutant of MenuNameOf: an index outside the table gets the name of the
\* last slot
MenuNameOf_clamped(idx) ==
  IF idx \in DOMAIN MENU_INDEX_NAME THEN MENU_INDEX_NAME[idx]
  ELSE MENU_INDEX_NAME[2]

\* MENU_INDEX_NAME.get(idx, f"menu{idx}")
MenuNameOf(idx) ==
  IF idx \in DOMAIN MENU_INDEX_NAME THEN MENU_INDEX_NAME[idx]
  ELSE <<K_ME, K_NI, K_XYU, K_BAR>> \o str(idx)

\* the loop of get_order_status over the previous-quantity matches
RECURSIVE DayOrders(_, _)
DayOrders(prev, orders) ==
  IF prev = <<>> THEN orders
  ELSE LET m == Head(prev)
           name == MenuNameOf(m.idx)
       IN DayOrders(Tail(prev),
            IF m.qty > 0 THEN (name :> m.qty) @@ orders ELSE orders)

\* a mutant of pad2: the number is not padded
pad2_plain(n) == str(n)

\* f"{n:02d}"
pad2(n) == IF n < 10 THEN <<"0">> \o str(n) ELSE str(n)

\* the loop over the quantity tokens of one row of the monthly table
RECURSIVE RowOrders(_, _)
RowOrders(tokens, orders) ==
  IF tokens = <<>> THEN orders
  ELSE LET m == Head(tokens)
           name == IF contains(m.name, <<C_WA, C_FUU>>)
                     THEN <<C_WA, C_FUU, K_RA, K_N, K_CHI>> ELSE m.name
       IN RowOrders(Tail(tokens),
            IF m.qty > 0 THEN (name :> m.qty) @@ orders ELSE orders)

\* a mutant of HolidayStatus: the quantity tokens of a holiday row are read
HolidayStatus_with_orders(date_str, tr) ==
  DayOrderStatus(date_str, RowOrders(tr.tokens, <<>>), TRUE, tr.order_text)

\* the record of a row whose second cell has the holiday marker
HolidayStatus(date_str, tr) == DayOrderStatus(date_str, <<>>, TRUE, tr.order_text)

\* the loop of get_monthly_orders over the rows of the table
RECURSIVE MonthRows(_, _, _)
MonthRows(rows, year, month) ==
  IF rows = <<>> THEN <<>>
  ELSE LET tr == Head(rows)
           rest == MonthRows(Tail(rows), year, month)
           date_str == str(year) \o <<"-">> \o pad2(month) \o <<"-">> \o pad2(tr.day)
       IN IF tr.ncells < 2 THEN rest
          ELSE IF ~tr.day_match THEN rest
          ELSE IF tr.holiday
            THEN <<HolidayStatus(date_str, tr)>> \o rest
          ELSE <<DayOrderStatus(date_str, RowOrders(tr.tokens, <<>>), FALSE, "")>>
                 \o rest

(* ------------------------------ results ------------------------------- *)

OrderResult(success, message, date, menu_type, quantity) ==
  [kind |-> "OrderResult", success |-> success, message |-> message,
   date |-> date, menu_type |-> menu_type, quantity |-> quantity]

\* a mutant of Message: a cancellation is reported with the words of an order
Message_always_ordered(template, date, menu_name, quantity) ==
  [template |-> IF template = "cancelled" THEN "ordered" ELSE template,
   date |-> date, menu_name |-> menu_name, quantity |-> quantity]

\* the three messages of place_order, with the values formatted into them
Message(template, date, menu_name, quantity) ==
  [template |-> template, date |-> date, menu_name |-> menu_name,
   quantity |-> quantity]

NoResult == [kind |-> "none"]
BoolResult(b) == [kind |-> "bool", value |-> b]
ListResult(l) == [kind |-> "list", value |-> l]

(* ------------------------------ requests ------------------------------ *)

Request(method, path, dt, idx, token, q, creds) ==
  [method |-> method, path |-> path, dt |-> dt, idx |-> idx, token |-> token,
   q |-> q, creds |-> creds]

ProbeRequest == Request("GET", "/Order", <<>>, -1, "", <<>>, <<>>)
LoginPageRequest == Request("GET", "/", <<>>, -1, "", <<>>, <<>>)
LoginRequest(token, creds) == Request("POST", "/", <<>>, -1, token, <<>>, creds)
DetailsRequest(dt) == Request("GET", "/Order/CreateDetails", dt, -1, "", <<>>, <<>>)
OrderRequest(dt, token, q) ==
  Request("POST", "/Order/CreateDetails", dt, -1, token, q, <<>>)
MonthRequest(month) == Request("GET", "/Order", <<>>, month, "", <<>>, <<>>)

(* ------------------------------- inputs ------------------------------- *)

D_DASH == <<"2","0","2","6","-","0","2","-","1","0">>
D_SLASH == <<"2","0","2","6","/","0","2","/","1","0">>
D_SHORT == <<"2","6","-","2","-","1","0">>
Dates == {D_DASH, D_SLASH, D_SHORT}

MenuTypes == {<<"w","a","f","u">>, <<"A","I">>, <<"2">>, <<"x">>}
Quantities == 0..MaxQty
Months == {<<2026, 2>>}

StaleAuth == Cookie(AUTH, "stale")
FreshAuth == Cookie(AUTH, "fresh")
SessionId == Cookie(SESSION_ID, "sid")

\* what COOKIE_FILE can hold when the process starts
FileInits ==
  { NoFile,
    FileOf("invalid", <<>>),
    FileOf("array", <<>>),
    FileOf("object_null", <<>>),
    FileOf("object", <<>>),
    FileOf("object", <<Entry(StaleAuth)>>),
    FileOf("object", <<Entry(StaleAuth), EntryWithout(SessionId, "path")>>),
    FileOf("object", <<Entry(SessionId), NonObjectEntry>>) }

EnvInits ==
  { ("BENTO_USER_CD" :> u) @@ ("BENTO_PASSWORD" :> w) :
      u \in {"", "user"}, w \in {"", "secret"} }

\* Location headers of the probe's redirects (<<>>: no header)
Locations ==
  { <<>>,
    <<"/">>,
    <<"/","D","a","s","h","b","o","a","r","d">>,
    <<"/","A","c","c","o","u","n","t","/","L","o","g","i","n">>,
    <<"/","O","r","d","e","r","/">>,
    <<"h","t","t","p","s",":","/","/","h","/">> }

\* the outcomes of the probe's GET /Order
ProbeResponses ==
  {TransportFailure}
    \cup {Response(c, <<>>, EmptyPage, FALSE) : c \in {200, 204, 404, 500}}
    \cup {Response(c, l, EmptyPage, FALSE) :
            c \in RedirectStatuses \cup {300, 304}, l \in Locations}

TokenPages ==
  { EmptyPage,
    Page(<<Tag("name_value", "tok_a")>>, <<>>, <<>>),
    Page(<<Tag("value_name", "tok_b")>>, <<>>, <<>>),
    Page(<<Tag("value_name", "tok_b"), Tag("name_value", "tok_a")>>, <<>>, <<>>) }

PageResponses ==
  {TransportFailure}
    \cup {Response(c, <<>>, h, FALSE) : c \in {200, 500}, h \in TokenPages}

LoginResponses ==
  {TransportFailure}
    \cup {Response(c, <<>>, EmptyPage, a) : c \in {200, 500}, a \in BOOLEAN}

SubmitResponses ==
  {TransportFailure} \cup {Response(c, <<>>, EmptyPage, FALSE) : c \in {200, 404, 500}}

Prev(i, n) == [idx |-> i, qty |-> n]
StatusPages ==
  { Page(<<>>, <<>>, <<>>),
    Page(<<>>, <<Prev(0, 0), Prev(1, 2), Prev(2, 0)>>, <<>>),
    Page(<<>>, <<Prev(0, 1), Prev(3, 1)>>, <<>>),
    Page(<<>>, <<Prev(1, 2), Prev(1, 0)>>, <<>>) }

StatusResponses ==
  {TransportFailure}
    \cup {Response(200, <<>>, h, FALSE) : h \in StatusPages}
    \cup {Response(500, <<>>, EmptyPage, FALSE)}

Row(ncells, day_match, day, holiday, order_text, tokens) ==
  [ncells |-> ncells, day_match |-> day_match, day |-> day, holiday |-> holiday,
   order_text |-> order_text, tokens |-> tokens]
Token(name, qty) == [name |-> name, qty |-> qty]
MonthPages ==
  { Page(<<>>, <<>>, <<>>),
    Page(<<>>, <<>>,
      << Row(1, FALSE, 0, FALSE, "", <<>>),
         Row(2, FALSE, 0, FALSE, "header", <<>>),
         Row(2, TRUE, 10, FALSE, "wafu1ai2",
             <<Token(<<C_WA, C_FUU, H_RA, H_N, H_CHI>>, 1),
               Token(<<H_A, H_I, K_RA, K_N, K_CHI>>, 2),
               Token(<<H_SO, H_NO, C_TA>>, 0)>>),
         Row(2, TRUE, 11, TRUE, "holiday",
             <<Token(<<H_A, H_I, K_RA, K_N, K_CHI>>, 1)>>),
         Row(3, TRUE, 12, FALSE, "", <<>>) >>) }

MonthResponses ==
  {TransportFailure}
    \cup {Response(200, <<>>, h, FALSE) : h \in MonthPages}
    \cup {Response(500, <<>>, EmptyPage, FALSE)}

\* the canonical dates the calls can order for
OrderDates == {_normalize_date(d).val : d \in {x \in Dates : _normalize_date(x).ok}}

\* an order site that stores the three quantities of an accepted order POST
Stored(q) == [i \in 1..3 |-> int(q[i]).val]

(* ------------------------------- state -------------------------------- *)

VARIABLES
  file,           \* COOKIE_FILE
  env,            \* the environment variables of the process
  calls,          \* calls of the API started so far
  pc,             \* where the running call is
  op,             \* the function called
  args,           \* its arguments
  jar,            \* client.cookies of the call's httpx.Client
  log,            \* the requests the call has issued, in order
  resp,           \* what the last step's request ended in (NoResponse: no request)
  session_valid,  \* what _is_session_valid returned: "none" before it ran
  login_ret,      \* what _login returned: "none" before it returned
  login_token,    \* _login's login_token
  order_resp,     \* place_order's order_resp
  order_token,    \* place_order's order_token
  outcome,        \* "none", "returned" or "raised"
  error,          \* the exception raised
  result,         \* the value returned
  io,             \* reads of the credentials, reads and writes of the file
  upstream,       \* the quantities the order site holds for each date
  procs           \* other invocations at work on COOKIE_FILE: where each is

vars == <<file, env, calls, pc, op, args, jar, log, resp, session_valid,
          login_ret, login_token, order_resp, order_token, outcome, error,
          result, io, upstream, procs>>

NoArgs ==
  [date |-> <<>>, menu_type |-> <<>>, quantity |-> 0, year |-> 0, month |-> 0,
   force |-> FALSE]
NoIO == [cred_reads |-> 0, file_reads |-> 0, file_writes |-> 0]

\* two more invocations of the program that share COOKIE_FILE; each is
\* outside _save_cookies ("idle") or between its open and its write
\* ("opened") with the jar it is saving, and remembers what its last
\* _load_cookies returned
Procs == {"a", "b"}
IdleProc == [pc |-> "idle", jar |-> <<>>, loaded |-> "none"]

Init ==
  /\ file \in FileInits
  /\ env \in EnvInits
  /\ calls = 0
  /\ pc = "idle"
  /\ op = "none"
  /\ args = NoArgs
  /\ jar = <<>>
  /\ log = <<>>
  /\ resp = NoResponse
  /\ session_valid = "none"
  /\ login_ret = "none"
  /\ login_token = ""
  /\ order_resp = NoResponse
  /\ order_token = ""
  /\ outcome = "none"
  /\ error = ""
  /\ result = NoResult
  /\ io = NoIO
  /\ upstream = [d \in OrderDates |-> <<0, 0, 0>>]
  /\ procs = [p \in Procs |-> IdleProc]

(* ------------------------------ actions ------------------------------- *)

\* the call ends: it returns res (outc = "returned") or raises err
Finish(outc, err, res) ==
  /\ pc' = "done"
  /\ outcome' = outc
  /\ error' = err
  /\ result' = res

Raise(err) == Finish("raised", err, NoResult)

Goto(p) ==
  /\ pc' = p
  /\ UNCHANGED <<outcome, error, result>>

\* a mutant of FirstStep: the stored cookies are never tried
FirstStep_fresh(force) == "creds"

\* a mutant of FirstStep: force is not looked at
FirstStep_load(force) == "load"

\* _login's first step: with force the stored cookies are not tried
FirstStep(force) == IF force THEN "creds" ELSE "load"

\* a call starts with a fresh client; err is the ValueError of its argument
\* checks ("" when they pass), raised before the client is made
Begin(o, a, err) ==
  /\ pc = "idle"
  /\ calls < MaxCalls
  /\ calls' = calls + 1
  /\ op' = o
  /\ args' = a
  /\ jar' = <<>>
  /\ log' = <<>>
  /\ resp' = NoResponse
  /\ session_valid' = "none"
  /\ login_ret' = "none"
  /\ login_token' = ""
  /\ order_resp' = NoResponse
  /\ order_token' = ""
  /\ io' = NoIO
  /\ IF err # "" THEN Raise(err)
     ELSE Goto(FirstStep(a.force))
  /\ UNCHANGED <<procs, upstream, file, env>>

\* a mutant of PlaceOrderCheck: the date is not checked before the login
PlaceOrderCheck_menu_only(date, menu_type) ==
  IF ~_resolve_menu_index(menu_type).ok THEN "ValueError:menu_type" ELSE ""

\* the argument checks of place_order: the menu type, then the date
PlaceOrderCheck(date, menu_type) ==
  IF ~_resolve_menu_index(menu_type).ok THEN "ValueError:menu_type"
  ELSE IF ~_normalize_date(date).ok THEN "ValueError:date"
  ELSE ""

\* place_order(date, menu_type, quantity), up to the call of _login
place_order ==
  \E d \in Dates, m \in MenuTypes, q \in Quantities :
    Begin("place_order",
          [NoArgs EXCEPT !.date = d, !.menu_type = m, !.quantity = q],
          PlaceOrderCheck(d, m))

\* cancel_order(date, menu_type): place_order with quantity 0
cancel_order ==
  \E d \in Dates, m \in MenuTypes :
    Begin("cancel_order",
          [NoArgs EXCEPT !.date = d, !.menu_type = m, !.quantity = 0],
          PlaceOrderCheck(d, m))

\* the argument check of get_order_status
StatusCheck(date) ==
  IF ~_normalize_date(date).ok THEN "ValueError:date" ELSE ""

\* get_order_status(date), up to the call of _login
get_order_status ==
  \E d \in Dates :
    Begin("get_order_status", [NoArgs EXCEPT !.date = d], StatusCheck(d))

\* get_monthly_orders(year, month), up to the call of _login
get_monthly_orders ==
  \E ym \in Months :
    Begin("get_monthly_orders", [NoArgs EXCEPT !.year = ym[1], !.month = ym[2]], "")

\* _login(client, force) called on a fresh client
_login ==
  \E f \in BOOLEAN : Begin("_login", [NoArgs EXCEPT !.force = f], "")

\* a mutant of AfterLogin: the callers do not look at what _login returned
AfterLogin_goes_on(ok) ==
  /\ login_ret' = IF ok THEN "true" ELSE "false"
  /\ IF op = "_login" THEN Finish("returned", "", BoolResult(ok))
     ELSE Goto("fetch")

\* a mutant of AfterLogin: place_order raises on a failed login as the
\* status functions do
AfterLogin_raises(ok) ==
  /\ login_ret' = IF ok THEN "true" ELSE "false"
  /\ IF op = "_login" THEN Finish("returned", "", BoolResult(ok))
     ELSE IF ok THEN Goto("fetch")
     ELSE Raise("RuntimeError:login")

\* _login returns ok to its caller, which goes on to its next request or ends
AfterLogin(ok) ==
  /\ login_ret' = IF ok THEN "true" ELSE "false"
  /\ IF op = "_login" THEN Finish("returned", "", BoolResult(ok))
     ELSE IF ok THEN Goto("fetch")
     ELSE IF op \in {"place_order", "cancel_order"}
       THEN Finish("returned", "",
              OrderResult(FALSE, Message("login_failed", <<>>, <<>>, 0),
                          args.date, args.menu_type, args.quantity))
     ELSE Raise("RuntimeError:login")

\* _login: the stored cookies are read into the client
LoadCookies ==
  /\ pc = "load"
  /\ LET r == _load_cookies(file, jar)
     IN /\ jar' = r.jar
        /\ IF r.exc # "" THEN Raise(r.exc)
           ELSE IF r.ret THEN Goto("probe")
           ELSE Goto("creds")
  /\ io' = [io EXCEPT !.file_reads = @ + 1]
  /\ resp' = NoResponse
  /\ UNCHANGED <<procs, upstream, file, env, calls, op, args, log,
                 session_valid, login_ret, login_token, order_resp,
                 order_token>>

\* a mutant of AfterProbe: a live session is logged in again
AfterProbe_relogin(valid) ==
  /\ session_valid' = IF valid THEN "valid" ELSE "invalid"
  /\ Goto("creds")
  /\ UNCHANGED login_ret

\* _login: what follows the probe's answer
AfterProbe(valid) ==
  IF valid
    THEN session_valid' = "valid" /\ AfterLogin(TRUE)
    ELSE session_valid' = "invalid" /\ Goto("creds") /\ UNCHANGED login_ret

\* _login: _is_session_valid issues GET /Order without following redirects
Probe ==
  /\ pc = "probe"
  /\ \E r \in ProbeResponses :
       /\ log' = Append(log, ProbeRequest)
       /\ resp' = r
       /\ AfterProbe(_is_session_valid(r))
  /\ UNCHANGED <<procs, upstream, file, env, calls, op, args, jar,
                 login_token, order_resp, order_token, io>>

\* _login: _get_credentials
GetCredentials ==
  /\ pc = "creds"
  /\ io' = [io EXCEPT !.cred_reads = @ + 1]
  /\ IF _get_credentials(env).ok THEN Goto("login_get")
     ELSE Raise("RuntimeError:credentials")
  /\ resp' = NoResponse
  /\ UNCHANGED <<procs, upstream, file, env, calls, op, args, jar, log,
                 session_valid, login_ret, login_token, order_resp,
                 order_token>>

\* the exception that ends a GET of a page with a token: of the request,
\* of raise_for_status, of _extract_token ("": none)
LoginPageError(r) ==
  IF r.failed THEN "TransportError"
  ELSE IF ~is_success(r) THEN "HTTPStatusError"
  ELSE IF ~_extract_token(r.html).ok THEN "RuntimeError:token"
  ELSE ""

\* _login: GET /, raise_for_status, _extract_token
LoginGet ==
  /\ pc = "login_get"
  /\ \E r \in PageResponses :
       /\ log' = Append(log, LoginPageRequest)
       /\ resp' = r
       /\ IF LoginPageError(r) # ""
            THEN Raise(LoginPageError(r)) /\ UNCHANGED login_token
            ELSE login_token' = _extract_token(r.html).val /\ Goto("login_post")
  /\ UNCHANGED <<procs, upstream, file, env, calls, op, args, jar,
                 session_valid, login_ret, order_resp, order_token, io>>

\* any cookie named AUTH in the jar
HasAuthCookie(j) == \E i \in 1..Len(j) : j[i].name = AUTH

\* _login: POST / with the credentials, then the look into the jar
LoginPost ==
  /\ pc = "login_post"
  /\ \E r \in LoginResponses :
       LET jar2 == IF r.set_auth THEN JarSet(jar, FreshAuth) ELSE jar
       IN /\ log' = Append(log, LoginRequest(login_token, _get_credentials(env).val))
          /\ resp' = r
          /\ IF r.failed
               THEN Raise("TransportError") /\ UNCHANGED <<jar, file, io, login_ret>>
             ELSE IF HasAuthCookie(jar2)
               THEN /\ jar' = jar2
                    /\ file' = _save_cookies(jar2)
                    /\ io' = [io EXCEPT !.file_writes = @ + 1]
                    /\ AfterLogin(TRUE)
             ELSE /\ jar' = jar2
                  /\ UNCHANGED <<file, io>>
                  /\ AfterLogin(FALSE)
  /\ UNCHANGED <<procs, upstream, env, calls, op, args, session_valid,
                 login_token, order_resp, order_token>>

\* a mutant of QuantityList: the list starts from the quantity in every slot
QuantityList_all(menu_index, quantity) == [i \in 1..3 |-> quantity]

\* place_order's quantities list
QuantityList(menu_index, quantity) ==
  [i \in 1..3 |-> IF i = menu_index + 1 THEN quantity ELSE 0]

\* a mutant of OrderPageError: raise_for_status is left out
OrderPageError_unchecked(r) ==
  IF r.failed THEN "TransportError"
  ELSE IF ~_extract_token(r.html).ok THEN "RuntimeError:token"
  ELSE ""

\* place_order: the exception that ends the GET of the order page ("": none)
OrderPageError(r) ==
  IF r.failed THEN "TransportError"
  ELSE IF ~is_success(r) THEN "HTTPStatusError"
  ELSE IF ~_extract_token(r.html).ok THEN "RuntimeError:token"
  ELSE ""

\* place_order: GET the order page, raise_for_status, _extract_token
FetchDetails ==
  /\ pc = "fetch"
  /\ op \in {"place_order", "cancel_order"}
  /\ \E r \in PageResponses :
       /\ log' = Append(log, DetailsRequest(_normalize_date(args.date).val))
       /\ resp' = r
       /\ order_resp' = r
       /\ IF OrderPageError(r) # ""
            THEN Raise(OrderPageError(r)) /\ UNCHANGED order_token
            ELSE order_token' = _extract_token(r.html).val /\ Goto("submit")
  /\ UNCHANGED <<procs, upstream, file, env, calls, op, args, jar,
                 session_valid, login_ret, login_token, io>>

\* a mutant of SubmitError: raise_for_status is left out
SubmitError_unchecked(r) == IF r.failed THEN "TransportError" ELSE ""

\* place_order: the exception that ends the POST of the order ("": none)
SubmitError(r) ==
  IF r.failed THEN "TransportError"
  ELSE IF ~is_success(r) THEN "HTTPStatusError"
  ELSE ""

\* place_order: POST the order, raise_for_status, the OrderResult
Submit ==
  /\ pc = "submit"
  /\ \E r \in SubmitResponses :
       LET menu_index == _resolve_menu_index(args.menu_type).val
           quantities == QuantityList(menu_index, args.quantity)
           menu_name == MENU_INDEX_NAME[menu_index]
       IN /\ log' = Append(log,
                      OrderRequest(_normalize_date(args.date).val, order_token,
                                   [i \in 1..3 |-> str(quantities[i])]))
          /\ resp' = r
          /\ IF SubmitError(r) # "" THEN Raise(SubmitError(r))
             ELSE Finish("returned", "",
                    OrderResult(TRUE,
                      Message(IF args.quantity = 0 THEN "cancelled" ELSE "ordered",
                              args.date, menu_name, args.quantity),
                      args.date, menu_name, args.quantity))
          /\ upstream' =
               IF r.failed \/ ~is_success(r) THEN upstream
               ELSE [upstream EXCEPT ![_normalize_date(args.date).val] =
                       Stored([i \in 1..3 |-> str(quantities[i])])]
  /\ UNCHANGED <<procs, file, env, calls, op, args, jar, session_valid,
                 login_ret, login_token, order_resp, order_token, io>>

\* get_order_status, get_monthly_orders: the exception that ends the GET
\* ("": none)
StatusError(r) ==
  IF r.failed THEN "TransportError"
  ELSE IF ~is_success(r) THEN "HTTPStatusError"
  ELSE ""

\* get_order_status: GET the order page, raise_for_status, the scan
FetchStatus ==
  /\ pc = "fetch"
  /\ op = "get_order_status"
  /\ \E r \in StatusResponses :
       /\ log' = Append(log, DetailsRequest(_normalize_date(args.date).val))
       /\ resp' = r
       /\ IF StatusError(r) # "" THEN Raise(StatusError(r))
          ELSE Finish("returned", "",
                 DayOrderStatus(args.date, DayOrders(r.html.prev, <<>>), FALSE, ""))
  /\ UNCHANGED <<procs, upstream, file, env, calls, op, args, jar,
                 session_valid, login_ret, login_token, order_resp,
                 order_token, io>>

\* get_monthly_orders: GET the monthly table, raise_for_status, the parse
FetchMonth ==
  /\ pc = "fetch"
  /\ op = "get_monthly_orders"
  /\ \E r \in MonthResponses :
       /\ log' = Append(log, MonthRequest(args.month))
       /\ resp' = r
       /\ IF StatusError(r) # "" THEN Raise(StatusError(r))
          ELSE Finish("returned", "",
                 ListResult(MonthRows(r.html.rows, args.year, args.month)))
  /\ UNCHANGED <<procs, upstream, file, env, calls, op, args, jar,
                 session_valid, login_ret, login_token, order_resp,
                 order_token, io>>

\* the call is over: its client is closed and its locals are gone; the file
\* and the environment stay
Return ==
  /\ pc = "done"
  /\ pc' = "idle"
  /\ op' = "none"
  /\ args' = NoArgs
  /\ jar' = <<>>
  /\ log' = <<>>
  /\ resp' = NoResponse
  /\ session_valid' = "none"
  /\ login_ret' = "none"
  /\ login_token' = ""
  /\ order_resp' = NoResponse
  /\ order_token' = ""
  /\ outcome' = "none"
  /\ error' = ""
  /\ result' = NoResult
  /\ io' = NoIO
  /\ UNCHANGED <<procs, upstream, file, env, calls>>

Next ==
  \/ place_order
  \/ cancel_order
  \/ get_order_status
  \/ get_monthly_orders
  \/ _login
  \/ LoadCookies
  \/ Probe
  \/ GetCredentials
  \/ LoginGet
  \/ LoginPost
  \/ FetchDetails
  \/ Submit
  \/ FetchStatus
  \/ FetchMonth
  \/ Return

Spec == Init /\ [][Next]_vars

(* ------------------------ the tools of the server -------------------- *)

\* the characters for "month" and "year", and the words for this, next and
\* last month in their two spellings, by code points
C_GETSU == "U+6708"
C_NEN == "U+5E74"
THIS_MONTH == {<<"U+4ECA", C_GETSU>>, <<"U+3053", "U+3093", "U+3052", "U+3064">>}
NEXT_MONTH == {<<"U+6765", C_GETSU>>, <<"U+3089", "U+3044", "U+3052", "U+3064">>}
LAST_MONTH == {<<"U+5148", C_GETSU>>, <<"U+305B", "U+3093", "U+3052", "U+3064">>}

PairResult(y, m) == [kind |-> "tuple", value |-> <<y, m>>]

\* _resolve_month_query(query) when datetime.now() is in month today[2] of
\* year today[1]: a PairResult, or NoResult for None
_resolve_month_query(query, today) ==
  LET q == strip(query)
      n == Len(q)
      AllDigits(t) == \A i \in 1..Len(t) : IsDigit(t[i])
      \* re.match(r"(\d{1,2})<month>$", q)
      m1 == n \in {2, 3} /\ q[n] = C_GETSU /\ AllDigits(SubSeq(q, 1, n - 1))
      month1 == DigitsValue(SubSeq(q, 1, n - 1))
      \* re.match(r"(\d{4})<year>(\d{1,2})<month>$", q)
      m2 == /\ n \in {7, 8}
            /\ AllDigits(SubSeq(q, 1, 4))
            /\ q[5] = C_NEN
            /\ AllDigits(SubSeq(q, 6, n - 1))
            /\ q[n] = C_GETSU
  IN IF q \in THIS_MONTH THEN PairResult(today[1], today[2])
     ELSE IF q \in NEXT_MONTH
       THEN IF today[2] = 12 THEN PairResult(today[1] + 1, 1)
            ELSE PairResult(today[1], today[2] + 1)
     ELSE IF q \in LAST_MONTH
       THEN IF today[2] = 1 THEN PairResult(today[1] - 1, 12)
            ELSE PairResult(today[1], today[2] - 1)
     ELSE IF m1 /\ 1 <= month1 /\ month1 <= 12 THEN PairResult(today[1], month1)
     ELSE IF m2
       THEN PairResult(DigitsValue(SubSeq(q, 1, 4)),
                       DigitsValue(SubSeq(q, 6, n - 1)))
     ELSE NoResult


\* the signs the tools put before their texts, named by their code points
MARK_OK == "U+2705"
MARK_FAIL == "U+274C"
MARK_DAY == "U+1F4C5"
MARK_LIST == "U+1F4CB"

\* a mutant of Caught: only the errors the client raises by itself are caught
Caught_own_errors(err) ==
  err \in {"ValueError:menu_type", "ValueError:date", "RuntimeError:credentials",
           "RuntimeError:login", "RuntimeError:token"}

\* `except Exception` of the tools: every exception of the client is one
Caught(err) ==
  err \in {"ValueError:menu_type", "ValueError:date", "RuntimeError:credentials",
           "RuntimeError:login", "RuntimeError:token", "TransportError",
           "HTTPStatusError", "AttributeError", "TypeError"}

\* what the tool that made the call of the client gives to its caller once
\* the call has ended: a text after a sign, or (raised) the exception
ToolReply ==
  IF outcome = "raised"
    THEN IF Caught(error)
           THEN [raised |-> FALSE, mark |-> MARK_FAIL, text |-> error]
           ELSE [raised |-> TRUE, mark |-> "", text |-> error]
  ELSE IF op \in {"place_order", "cancel_order"}
    THEN [raised |-> FALSE,
          mark |-> IF result.success THEN MARK_OK ELSE MARK_FAIL,
          text |-> result.message]
  ELSE IF op = "get_monthly_orders"
    THEN [raised |-> FALSE,
          mark |-> IF result.value = <<>> THEN MARK_DAY ELSE MARK_LIST,
          text |-> result.value]
  ELSE [raised |-> FALSE, mark |-> MARK_DAY, text |-> result.orders]

(* ------------------- the helpers called on their own ------------------ *)

\* strings given to _resolve_menu_index: the alias keys in their case
\* variants, numerals in the spellings int() reads, and others, each bare
\* and with whitespace around it
MenuBodies ==
  { <<"w","a","f","u">>, <<"W","A","F","U">>, <<"W","a","f","u">>,
    <<"a","i">>, <<"A","I">>, <<"A","i">>,
    <<"o","t","h","e","r">>, <<"O","T","H","E","R">>, <<"O","t","h","e","r">>,
    <<C_WA,C_FUU>>, <<C_WA,C_FUU,K_RA,K_N,K_CHI>>, <<C_WA,C_FUU,H_RA,H_N,H_CHI>>,
    <<H_A,H_I,K_RA,K_N,K_CHI>>, <<H_A,H_I>>, <<H_SO,H_NO,C_TA>>,
    <<"0">>, <<"1">>, <<"2">>, <<"3">>, <<"1","0">>,
    <<"0","1">>, <<"+","2">>, <<"-","0">>, <<"-","1">>, <<"0","_","2">>,
    <<"1",".","0">>, <<"_","1">>, <<"1"," ","0">>,
    <<>>, <<"x">>, <<"w","a","f","u","u">>, <<H_A>>, <<C_WA,C_FUU,K_RA>> }
Padding == {<<>>, <<" ">>, <<"\n">>}
MenuStrings == {a \o b \o c : a \in Padding, b \in MenuBodies, c \in Padding}

\* strings given to _normalize_date: a first part, two or three more parts,
\* with either separator
DateYears == {<<"2","0","2","6">>, <<"2","6">>, <<"2","0","2","6","0">>,
              <<"a","b","c","d">>, <<" ","2","6"," ">>, <<>>}
DateSeps == {"-", "/"}
DateStrings ==
  {y \o <<a>> \o m \o <<b>> \o d :
     y \in DateYears, a \in DateSeps, b \in DateSeps,
     m \in {<<"0","2">>, <<>>}, d \in {<<"1","0">>, <<"1","0","/","9">>}}
    \cup {y \o <<a>> \o <<"0","2">> : y \in DateYears, a \in DateSeps}
    \cup DateYears

\* jars given to _save_cookies: up to two cookies that differ in their key
JarCookies ==
  { [name |-> n, value |-> v, domain |-> d, path |-> q] :
      n \in {AUTH, SESSION_ID}, v \in {"v"}, d \in {HOST, ".example.com"},
      q \in {"/", "/Order"} }
    \cup {Cookie(AUTH, "w")}
Jars ==
  {<<>>} \cup {<<c>> : c \in JarCookies}
    \cup {<<p[1], p[2]>> :
            p \in {x \in JarCookies \X JarCookies : CookieKey(x[1]) # CookieKey(x[2])}}

\* strings given to _resolve_month_query, bare and with a blank around them,
\* and the months datetime.now() is in
MonthQueries ==
  LET Y == <<"2","0","2","6", C_NEN>>
      bodies ==
        { <<"2", C_GETSU>>, <<"1","2", C_GETSU>>, <<"1","3", C_GETSU>>,
          <<"0", C_GETSU>>, <<"0","0", C_GETSU>>, <<"1","2","3", C_GETSU>>,
          <<C_GETSU>>, <<>>, <<"2", C_NEN>>, <<"2", C_GETSU, "x">>,
          Y \o <<"2", C_GETSU>>, Y \o <<"1","2", C_GETSU>>,
          Y \o <<"1","3", C_GETSU>>, Y \o <<"0", C_GETSU>>,
          Y \o <<"9","9", C_GETSU>>, Y \o <<C_GETSU>>,
          <<"2","6", C_NEN, "2", C_GETSU>>,
          <<"2","0","2","6","-","0","2","-","1","0">> }
          \cup THIS_MONTH \cup NEXT_MONTH \cup LAST_MONTH
  IN {a \o b \o c : a \in {<<>>, <<" ">>}, b \in bodies, c \in {<<>>, <<" ">>}}
Todays == {<<2026, 1>>, <<2026, 6>>, <<2026, 12>>}

IntResult(n) == [kind |-> "int", value |-> n]
StrResult(t) == [kind |-> "str", value |-> t]

\* a helper is called on its own, with no client and no request, and ends
HelperCall(o, a, ok, err, res) ==
  /\ pc = "idle"
  /\ op' = o
  /\ args' = a
  /\ IF ok THEN Finish("returned", "", res) ELSE Raise(err)
  /\ UNCHANGED <<procs, file, env, calls, jar, log, resp, session_valid,
                 login_ret, login_token, order_resp, order_token, io,
                 upstream>>

\* _resolve_menu_index(menu_type)
ResolveMenuIndex ==
  \E m \in MenuStrings :
    LET r == _resolve_menu_index(m)
    IN HelperCall("_resolve_menu_index", [NoArgs EXCEPT !.menu_type = m],
                  r.ok, "ValueError:menu_type", IntResult(r.val))

\* _normalize_date(date_str)
NormalizeDate ==
  \E d \in DateStrings :
    LET r == _normalize_date(d)
    IN HelperCall("_normalize_date", [NoArgs EXCEPT !.date = d],
                  r.ok, "ValueError:date", StrResult(r.val))

\* _resolve_month_query(query); args holds the query as date and the year
\* and month of datetime.now()
ResolveMonthQuery ==
  \E q \in MonthQueries, t \in Todays :
    HelperCall("_resolve_month_query",
               [NoArgs EXCEPT !.date = q, !.year = t[1], !.month = t[2]],
               TRUE, "", _resolve_month_query(q, t))

\* _save_cookies(client) on a client whose jar is j
SaveCookies ==
  /\ pc = "idle"
  /\ \E j \in Jars :
       /\ jar' = j
       /\ file' = _save_cookies(j)
  /\ op' = "_save_cookies"
  /\ io' = [io EXCEPT !.file_writes = @ + 1]
  /\ Goto("saved")
  /\ UNCHANGED <<procs, env, calls, args, log, resp, session_valid, login_ret,
                 login_token, order_resp, order_token, upstream>>

\* _load_cookies(client) on a fresh client, after _save_cookies
LoadSaved ==
  /\ pc = "saved"
  /\ LET r == _load_cookies(file, <<>>)
     IN /\ jar' = r.jar
        /\ IF r.exc # "" THEN Raise(r.exc)
           ELSE Finish("returned", "", BoolResult(r.ret))
  /\ op' = "_load_cookies"
  /\ io' = [io EXCEPT !.file_reads = @ + 1]
  /\ UNCHANGED <<procs, file, env, calls, args, log, resp, session_valid,
                 login_ret, login_token, order_resp, order_token, upstream>>

InitHelpers == Init /\ file = NoFile /\ env = [n \in DOMAIN env |-> ""]

NextHelpers ==
  \/ ResolveMenuIndex
  \/ NormalizeDate
  \/ ResolveMonthQuery
  \/ SaveCookies
  \/ LoadSaved
  \/ Return

SpecHelpers == InitHelpers /\ [][NextHelpers]_vars

(* ------------------- a caller that orders repeatedly ------------------ *)

\* the caller goes on to its next call and keeps what the last call gave it:
\* the client is closed and the locals of the call are gone, the value
\* returned (or the exception) stays with the caller
NextCall ==
  /\ pc = "done"
  /\ pc' = "idle"
  /\ op' = "none"
  /\ args' = NoArgs
  /\ jar' = <<>>
  /\ log' = <<>>
  /\ resp' = NoResponse
  /\ session_valid' = "none"
  /\ login_ret' = "none"
  /\ login_token' = ""
  /\ order_resp' = NoResponse
  /\ order_token' = ""
  /\ io' = NoIO
  /\ UNCHANGED <<procs, upstream, file, env, calls, outcome, error, result>>

\* the process starts with its credentials set and no session file
InitRepeat ==
  /\ Init
  /\ file = NoFile
  /\ env = ("BENTO_USER_CD" :> "user") @@ ("BENTO_PASSWORD" :> "secret")

NextRepeat ==
  \/ place_order
  \/ cancel_order
  \/ LoadCookies
  \/ Probe
  \/ GetCredentials
  \/ LoginGet
  \/ LoginPost
  \/ FetchDetails
  \/ Submit
  \/ NextCall

SpecRepeat == InitRepeat /\ [][NextRepeat]_vars

(* ----------------- invocations that share COOKIE_FILE ----------------- *)

\* the jars invocation p saves after its fresh login: its own authentication
\* cookie, alone or after a session cookie
JarsOf(p) == {<<Cookie(AUTH, p)>>, <<SessionId, Cookie(AUTH, p)>>}

\* a write at offset 0 of a text over what the file holds: the text, followed
\* by what the file held beyond the text's length (lengths in entries)
Overlay(f, entries) ==
  IF Len(entries) >= Len(f.cookies) THEN FileOf("object", entries)
  ELSE FileOf("mixed",
              entries \o SubSeq(f.cookies, Len(entries) + 1, Len(f.cookies)))

\* _save_cookies, first half: write_text opens COOKIE_FILE for writing, which
\* creates it or cuts it to length 0
OpenForWrite(p) ==
  /\ procs[p].pc = "idle"
  /\ \E j \in JarsOf(p) :
       procs' = [procs EXCEPT ![p].pc = "opened", ![p].jar = j]
  /\ file' = FileOf("empty", <<>>)
  /\ UNCHANGED <<env, calls, pc, op, args, jar, log, resp, session_valid,
                 login_ret, login_token, order_resp, order_token, outcome,
                 error, result, io, upstream>>

\* _save_cookies, second half: write_text writes the text from the start of
\* the file and closes it
WriteText(p) ==
  /\ procs[p].pc = "opened"
  /\ file' = Overlay(file, _save_cookies(procs[p].jar).cookies)
  /\ procs' = [procs EXCEPT ![p].pc = "idle", ![p].jar = <<>>]
  /\ UNCHANGED <<env, calls, pc, op, args, jar, log, resp, session_valid,
                 login_ret, login_token, order_resp, order_token, outcome,
                 error, result, io, upstream>>

\* _load_cookies of an invocation that is not writing
ReadFile(p) ==
  /\ procs[p].pc = "idle"
  /\ procs' = [procs EXCEPT ![p].loaded =
                 IF _load_cookies(file, <<>>).ret THEN "True" ELSE "False"]
  /\ UNCHANGED <<file, env, calls, pc, op, args, jar, log, resp,
                 session_valid, login_ret, login_token, order_resp,
                 order_token, outcome, error, result, io, upstream>>

\* the file is absent or holds the session of an earlier login
InitShared ==
  /\ Init
  /\ file \in {NoFile, FileOf("object", <<Entry(StaleAuth)>>)}
  /\ env = ("BENTO_USER_CD" :> "user") @@ ("BENTO_PASSWORD" :> "secret")

NextShared ==
  \/ \E p \in Procs : OpenForWrite(p)
  \/ \E p \in Procs : WriteText(p)
  \/ \E p \in Procs : ReadFile(p)

SpecShared == InitShared /\ [][NextShared]_vars

(* ------------------------------- claims ------------------------------- *)

LastRequest == log[Len(log)]

\* the state right after a step that issued the request q and got an answer
Answered(q) == Len(log) > 0 /\ LastRequest = q /\ resp # NoResponse

IsLoginPost(q) == q.method = "POST" /\ q.path = "/"
IsLoginPage(q) == q.method = "GET" /\ q.path = "/"
IsDetailsGet(q) == q.method = "GET" /\ q.path = "/Order/CreateDetails"
IsOrderPost(q) == q.method = "POST" /\ q.path = "/Order/CreateDetails"
IsMonthGet(q) == q.method = "GET" /\ q.path = "/Order" /\ q.idx # -1

Count(P(_)) == Cardinality({i \in 1..Len(log) : P(log[i])})

Ordering == op \in {"place_order", "cancel_order"}
Succeeded == outcome = "returned" /\ result.kind = "OrderResult" /\ result.success
FailedResult == outcome = "returned" /\ result.kind = "OrderResult" /\ ~result.success

\* C1: once the probe has found the stored cookie valid, _login has returned
\* True and the call has issued no GET / and no POST /, has not read the
\* credentials and has not written the session file.
C1_ValidSessionNoLogin ==
  session_valid = "valid" =>
    /\ ~args.force
    /\ login_ret = "true"
    /\ Count(IsLoginPage) = 0
    /\ Count(IsLoginPost) = 0
    /\ io.cred_reads = 0
    /\ io.file_writes = 0
    /\ (op = "_login" => pc = "done" /\ outcome = "returned" /\ result = BoolResult(TRUE))

C1_Witness ==
  /\ op = "_login"
  /\ pc = "done"
  /\ session_valid = "valid"
  /\ HasAuthCookie(jar)

\* C2: when the response to the credential POST sets no authentication
\* cookie, _login returns False and the session file is not written.
C2_NoAuthCookieFails ==
  (Len(log) > 0 /\ IsLoginPost(LastRequest) /\ resp # NoResponse
     /\ ~resp.failed /\ ~resp.set_auth)
    => (login_ret = "false" /\ io.file_writes = 0)

\* a file _load_cookies reads to the end: a JSON object whose "cookies" is a
\* list of objects that have the four keys
WellFormedFile(f) ==
  /\ f.exists
  /\ f.text = "object"
  /\ \A i \in 1..Len(f.cookies) : f.cookies[i].obj /\ f.cookies[i].keys = CookieFields

\* C3: whatever the session file holds, reading it does not end the call:
\* after the read of a file that is missing or is not of the expected shape
\* _login goes on to the fresh login.
C3_BadFileFallsThrough ==
  (io.file_reads = 1 /\ io.cred_reads = 0 /\ Len(log) = 0 /\ ~WellFormedFile(file))
    => (pc = "creds" /\ outcome = "none")

\* a Location that targets the root path (relative, or absolute with the
\* path /) or contains the login substring in any case
TargetsRootOrLogin(l) ==
  \/ l = S_ROOT
  \/ /\ contains(l, <<":", "/", "/">>)
     /\ endswith(l, S_ROOT)
     /\ SplitCount(l, "/") = 4
  \/ contains(lower(l), S_LOGIN)

ProbeAnswered == Answered(ProbeRequest) /\ ~resp.failed

C5_OtherOutcomesInvalid ==
  (Answered(ProbeRequest)
     /\ (resp.failed \/ (resp.status_code # 200 /\ resp.status_code \notin 300..399)))
    => (session_valid = "invalid" /\ pc = "creds" /\ outcome = "none"
          /\ login_ret = "none")

C5_Witness ==
  /\ Answered(ProbeRequest)
  /\ resp.failed
  /\ session_valid = "invalid"
  /\ pc = "creds"

\* C6: an order POST is issued only after _login returned True and the GET
\* of the order page of the same date returned 2xx with a token in it; the
\* POST goes to the URL of the GET and carries the token extracted from the
\* GET's page. With no token in the page there is no POST and no success.
C6_LoginGetTokenPost ==
  /\ \A i \in 1..Len(log) :
       IsOrderPost(log[i]) =>
         /\ login_ret = "true"
         /\ i > 1
         /\ IsDetailsGet(log[i - 1])
         /\ log[i - 1].dt = log[i].dt
         /\ log[i].dt = _normalize_date(args.date).val
         /\ ~order_resp.failed
         /\ is_success(order_resp)
         /\ _extract_token(order_resp.html).ok
         /\ log[i].token = _extract_token(order_resp.html).val
  /\ (Ordering /\ order_resp # NoResponse /\ ~order_resp.failed
        /\ ~_extract_token(order_resp.html).ok)
       => (Count(IsOrderPost) = 0 /\ ~Succeeded)

C6_Witness ==
  /\ Len(log) > 0
  /\ IsOrderPost(LastRequest)
  /\ login_token # ""
  /\ LastRequest.token # login_token
  /\ Len(order_resp.html.tags) = 2

NonSuccessAnswer ==
  /\ Len(log) > 0
  /\ resp # NoResponse
  /\ ~resp.failed
  /\ ~is_success(resp)
  /\ \/ IsLoginPage(LastRequest)
     \/ IsDetailsGet(LastRequest)
     \/ IsOrderPost(LastRequest)
     \/ IsMonthGet(LastRequest)

\* the call ended on a 2xx page in which no token is found
MissingToken ==
  /\ Len(log) > 0
  /\ resp # NoResponse
  /\ ~resp.failed
  /\ is_success(resp)
  /\ ~_extract_token(resp.html).ok
  /\ \/ IsLoginPage(LastRequest)
     \/ (IsDetailsGet(LastRequest) /\ Ordering)

C9_HardFailureNoRetry ==
  Ordering =>
    /\ (order_resp # NoResponse /\ (order_resp.failed \/ ~is_success(order_resp)))
         => (~Succeeded /\ Count(IsOrderPost) = 0 /\ pc = "done")
    /\ (Len(log) > 0 /\ IsOrderPost(LastRequest) /\ resp # NoResponse
          /\ (resp.failed \/ ~is_success(resp)))
         => (~Succeeded /\ outcome = "raised")
    /\ Count(IsLoginPost) <= 1
    /\ Count(IsDetailsGet) <= 1
    /\ Count(IsOrderPost) <= 1

C9_Witness ==
  /\ Ordering
  /\ pc = "done"
  /\ Len(log) > 0
  /\ IsOrderPost(LastRequest)
  /\ resp.status_code = 500
  /\ outcome = "raised"
  /\ Count(IsLoginPost) = 1

\* the arguments of the running call that its checks reject
BadMenuType == Ordering /\ ~_resolve_menu_index(args.menu_type).ok
BadDate ==
  /\ op \in {"place_order", "cancel_order", "get_order_status"}
  /\ ~_normalize_date(args.date).ok

ApiCall == op \in {"place_order", "cancel_order", "get_order_status",
                   "get_monthly_orders"}

\* the arguments of the running call pass its argument checks
ArgsAccepted ==
  /\ Ordering => PlaceOrderCheck(args.date, args.menu_type) = ""
  /\ op = "get_order_status" => StatusCheck(args.date) = ""

\* the slot the running call orders for, its canonical date, and what the
\* order site holds for that date
Slot == _resolve_menu_index(args.menu_type).val
OrderDate == _normalize_date(args.date).val
Held == upstream[OrderDate]

\* the step in which place_order / cancel_order gets the 2xx answer to its
\* order POST and returns success
OrderSucceeds == pc = "submit" /\ pc' = "done" /\ outcome' = "returned"

\* C12: when place_order / cancel_order for slot s succeeds, the
\* order site holds the requested quantity (0 for a cancellation) for slot s
\* and, for the other two slots, what it held before the call.
C12_OtherSlotsKept ==
  [][OrderSucceeds =>
       /\ Held'[Slot + 1] = args.quantity
       /\ \A i \in 1..3 : i # Slot + 1 => Held'[i] = Held[i]]_vars

\* C11: with the user code or the password unset, every call of place_order,
\* cancel_order, get_order_status and get_monthly_orders (with arguments that
\* pass the checks) ends in the RuntimeError of _get_credentials and has
\* issued no HTTP request, whatever cookies the session file holds (no file,
\* or a file that _load_cookies reads to the end).
C11_MissingCredentialsFailFirst ==
  (ApiCall /\ ArgsAccepted /\ ~_get_credentials(env).ok
     /\ (~file.exists \/ WellFormedFile(file))) =>
    /\ Len(log) = 0
    /\ (pc = "done" => outcome = "raised" /\ error = "RuntimeError:credentials")

\* C13: every order POST carries the token of the order page and three
\* quantity fields, of which the field of the selected slot carries the
\* requested quantity and the other two carry 0, so at most one is non-zero.
C13_OneSlotPayload ==
  \A i \in 1..Len(log) :
    IsOrderPost(log[i]) =>
      /\ Slot \in 0..2
      /\ DOMAIN log[i].q = 1..3
      /\ log[i].token = order_token
      /\ order_token # ""
      /\ log[i].q[Slot + 1] = str(args.quantity)
      /\ \A j \in 1..3 : j # Slot + 1 => log[i].q[j] = <<"0">>
      /\ Cardinality({j \in 1..3 : log[i].q[j] # <<"0">>}) <= 1

C13_Witness ==
  /\ op = "place_order"
  /\ Len(log) > 0
  /\ IsOrderPost(LastRequest)
  /\ Slot = 2
  /\ args.quantity = 1
  /\ LastRequest.q = <<(<<"0">>), (<<"0">>), (<<"1">>)>>

\* a session file that holds an authentication cookie
StoredSession(f) ==
  /\ WellFormedFile(f)
  /\ \E i \in 1..Len(f.cookies) : f.cookies[i].name = AUTH

\* C14: a call of _login with force set does not read the session file and
\* issues no probe; its first request, if it issues any, is the GET of the
\* site root, whatever the session file holds.
C14_ForceSkipsStoredSession ==
  args.force =>
    /\ io.file_reads = 0
    /\ session_valid = "none"
    /\ \A i \in 1..Len(log) : log[i] # ProbeRequest
    /\ (Len(log) > 0 => log[1] = LoginPageRequest)
    /\ (pc # "idle" /\ pc # "done" /\ Len(log) = 0 => pc \in {"creds", "login_get"})

C14_Witness ==
  /\ args.force
  /\ StoredSession(file)
  /\ Len(log) = 2
  /\ log[1] = LoginPageRequest
  /\ pc = "done"
  /\ result = BoolResult(TRUE)

\* _login has returned True from its fresh-login path
FreshLoginTrue == login_ret = "true" /\ session_valid # "valid"

\* the file holds the four fields of every cookie of the jar, in the jar's order
HoldsJar(f, j) ==
  /\ f.exists
  /\ f.text = "object"
  /\ Len(f.cookies) = Len(j)
  /\ \A i \in 1..Len(j) :
       /\ f.cookies[i].obj
       /\ f.cookies[i].keys = {"name", "value", "domain", "path"}
       /\ f.cookies[i].name = j[i].name
       /\ f.cookies[i].value = j[i].value
       /\ f.cookies[i].domain = j[i].domain
       /\ f.cookies[i].path = j[i].path

CookieSet(j) ==
  {<<j[i].name, j[i].value, j[i].domain, j[i].path>> : i \in 1..Len(j)}

\* C16: _load_cookies into a fresh client, after _save_cookies of a jar,
\* returns True and leaves the fresh client with the same set of cookies
\* (name, value, domain, path) as the jar that was saved.
C16_SaveLoadRoundTrip ==
  [][pc = "saved" /\ pc' = "done" =>
       /\ outcome' = "returned"
       /\ result' = BoolResult(TRUE)
       /\ CookieSet(jar') = CookieSet(jar)
       /\ Len(jar') = Len(jar)]_vars

\* two cookies of the same name for two domains have come back from the file
C16_Witness ==
  /\ pc = "done"
  /\ op = "_load_cookies"
  /\ result = BoolResult(TRUE)
  /\ Len(jar) = 2
  /\ jar[1].name = jar[2].name
  /\ jar[1].domain # jar[2].domain
  /\ HoldsJar(file, jar)

\* _resolve_menu_index has ended
Resolved == pc = "done" /\ op = "_resolve_menu_index"
ReturnedSlot(n) == outcome = "returned" /\ result = IntResult(n)
InvalidSelection == outcome = "raised" /\ error = "ValueError:menu_type"

\* C17 as claimed: _resolve_menu_index returns the slot of every alias in
\* every case variant and the numeral for "0", "1" and "2", and raises for
\* every other string.
C17_AliasesAndExactNumerals ==
  Resolved =>
    LET m == args.menu_type
    IN IF lower(m) \in DOMAIN MENU_TYPE_MAP
         THEN ReturnedSlot(MENU_TYPE_MAP[lower(m)])
       ELSE IF m \in {<<"0">>, <<"1">>, <<"2">>}
         THEN ReturnedSlot(DigitVal(m[1]))
       ELSE InvalidSelection

\* C17 as amended: _resolve_menu_index returns the slot of the alias that
\* the string is once its surrounding whitespace is removed and it is
\* lower-cased; failing that, the number int() reads from the string when
\* that number is 0, 1 or 2; and raises for every other string.
C17_AliasesStrippedAndIntNumerals ==
  Resolved =>
    LET m == args.menu_type
        t == lower(strip(m))
    IN IF t \in DOMAIN MENU_TYPE_MAP THEN ReturnedSlot(MENU_TYPE_MAP[t])
       ELSE IF int(m).ok /\ int(m).val \in {0, 1, 2} THEN ReturnedSlot(int(m).val)
       ELSE InvalidSelection

C17_Witness ==
  /\ Resolved
  /\ args.menu_type = <<" ", "+", "2", "\n">>
  /\ ReturnedSlot(2)

\* _normalize_date has ended
Normalized == pc = "done" /\ op = "_normalize_date"
InvalidDate == outcome = "raised" /\ error = "ValueError:date"

\* the string splits at its separators into exactly three parts of which
\* the first is a year of four digits
ThreePartsFourDigitYear(d) ==
  LET slashed == [i \in 1..Len(d) |-> IF d[i] = "-" THEN "/" ELSE d[i]]
      year == SplitFirst(slashed, "/")
  IN /\ SplitCount(slashed, "/") = 3
     /\ Len(year) = 4
     /\ \A i \in 1..Len(year) : IsDigit(year[i])

\* C18: _normalize_date returns, for a date written with "-" or with "/",
\* the same date written with "/"; applied to what it returned it returns
\* the same again; and it raises for every string that does not split into
\* exactly three parts with a four-digit year as the first.
C18_NormalizeDate ==
  Normalized =>
    LET d == args.date
    IN /\ ThreePartsFourDigitYear(d) =>
            /\ outcome = "returned"
            /\ result = StrResult([i \in 1..Len(d) |->
                                      IF d[i] = "-" THEN "/" ELSE d[i]])
       /\ outcome = "returned" =>
            _normalize_date(result.value) = [ok |-> TRUE, val |-> result.value]
       /\ ~ThreePartsFourDigitYear(d) => InvalidDate

DayReturned == pc = "done" /\ op = "get_order_status" /\ outcome = "returned"
MonthReturned == pc = "done" /\ op = "get_monthly_orders" /\ outcome = "returned"

\* the rows of the page for which the monthly parser makes a record
DayRows(rows) ==
  {i \in 1..Len(rows) : rows[i].ncells >= 2 /\ rows[i].day_match}

\* C19: in the DayOrderStatus get_order_status returns and in every one
\* get_monthly_orders returns, holiday implies that orders is empty; and a
\* row of the monthly table whose second cell has the holiday marker gives
\* a record with holiday set and no orders, also when the cell has quantity
\* tokens.
C19_HolidayHasNoOrders ==
  /\ DayReturned => (result.holiday => result.orders = <<>>)
  /\ MonthReturned =>
       /\ \A i \in 1..Len(result.value) :
            result.value[i].holiday => result.value[i].orders = <<>>
       /\ \A r \in DayRows(resp.html.rows) :
            resp.html.rows[r].holiday =>
              \E i \in 1..Len(result.value) :
                /\ result.value[i].date =
                     str(args.year) \o <<"-">> \o pad2(args.month) \o <<"-">>
                       \o pad2(resp.html.rows[r].day)
                /\ result.value[i].holiday
                /\ result.value[i].orders = <<>>

\* the month's page had a holiday row with a quantity token in it
C19_Witness ==
  /\ MonthReturned
  /\ \E r \in DayRows(resp.html.rows) :
       /\ resp.html.rows[r].holiday
       /\ resp.html.rows[r].tokens # <<>>
       /\ resp.html.rows[r].tokens[1].qty > 0
  /\ \E i \in 1..Len(result.value) : result.value[i].holiday

\* the display names of the three slots
SlotNames == {MENU_INDEX_NAME[i] : i \in {0, 1, 2}}

\* the name get_order_status gives to the slot index of a field of the page
FieldName(idx) ==
  IF idx \in {0, 1, 2} THEN MENU_INDEX_NAME[idx]
  ELSE <<K_ME, K_NI, K_XYU, K_BAR>> \o str(idx)

\* C20 as claimed: in the result of get_order_status every entry of orders
\* has a quantity above 0 and one of the three display names as its key, and
\* a slot whose previous-quantity field on the page is 0 is absent.
C20_PositiveSlotsOfTheTable ==
  DayReturned =>
    /\ \A k \in DOMAIN result.orders : result.orders[k] > 0 /\ k \in SlotNames
    /\ \A i \in 1..Len(resp.html.prev) :
         resp.html.prev[i].qty = 0 =>
           FieldName(resp.html.prev[i].idx) \notin DOMAIN result.orders

\* C20 as amended: every entry of orders has a quantity above 0; the keys
\* are the names of the fields of the page whose previous quantity is above
\* 0, a name being the display name for the indices 0, 1, 2 and the word for
\* "menu" followed by the index for any other index; the quantity of a key
\* is that of the last such field of that name.
C20_PositiveFieldsOfThePage ==
  DayReturned =>
    LET prev == resp.html.prev
        Positive == {i \in 1..Len(prev) : prev[i].qty > 0}
    IN /\ \A k \in DOMAIN result.orders : result.orders[k] > 0
       /\ DOMAIN result.orders = {FieldName(prev[i].idx) : i \in Positive}
       /\ \A i \in Positive :
            (\A j \in Positive : prev[j].idx = prev[i].idx => j <= i)
              => result.orders[FieldName(prev[i].idx)] = prev[i].qty

\* the page had a field of index 3 with a quantity above 0
C20_Witness ==
  /\ DayReturned
  /\ \E i \in 1..Len(resp.html.prev) :
       resp.html.prev[i].idx = 3 /\ resp.html.prev[i].qty > 0
  /\ DOMAIN result.orders \ SlotNames # {}

\* a number below 100 written with two digits
TwoDigits(n) == <<DigitChars[(n \div 10) + 1], DigitChars[(n % 10) + 1]>>

\* the place, among the rows that give a record, of row r of the page
Rank(rows, r) == Cardinality({i \in DayRows(rows) : i <= r})

\* the name a quantity token of the monthly table is recorded under
TokenName(name) ==
  IF \E i \in 1..(Len(name) - 1) : name[i] = C_WA /\ name[i + 1] = C_FUU
    THEN MENU_INDEX_NAME[0] ELSE name

\* C21: get_monthly_orders returns one DayOrderStatus for each row of the
\* page that has two cells or more and a first cell matching the day
\* pattern, in the order of the rows, and none for the other rows; its date
\* is year-month-day of the arguments and the row's day; a row with no
\* holiday marker has holiday unset and the quantity tokens above 0 as its
\* orders (none for a row without tokens); no order has the quantity 0.
C21_OneRecordPerDayRow ==
  MonthReturned =>
    LET rows == resp.html.rows
        res == result.value
    IN /\ Len(res) = Cardinality(DayRows(rows))
       /\ \A r \in DayRows(rows) :
            LET st == res[Rank(rows, r)]
                tr == rows[r]
                Positive == {i \in 1..Len(tr.tokens) : tr.tokens[i].qty > 0}
            IN /\ st.kind = "DayOrderStatus"
               /\ st.date = str(args.year) \o <<"-">> \o TwoDigits(args.month)
                               \o <<"-">> \o TwoDigits(tr.day)
               /\ st.holiday = tr.holiday
               /\ ~tr.holiday =>
                    /\ DOMAIN st.orders =
                         {TokenName(tr.tokens[i].name) : i \in Positive}
                    /\ \A i \in Positive :
                         st.orders[TokenName(tr.tokens[i].name)] = tr.tokens[i].qty
               /\ (~tr.holiday /\ tr.tokens = <<>>) => st.orders = <<>>
               /\ \A k \in DOMAIN st.orders : st.orders[k] > 0

\* the page had rows that are skipped, a row with a token of quantity 0 and
\* a row with neither a holiday marker nor a token
C21_Witness ==
  /\ MonthReturned
  /\ Len(result.value) = 3
  /\ Len(resp.html.rows) = 5
  /\ \E r \in DayRows(resp.html.rows) :
       \E i \in 1..Len(resp.html.rows[r].tokens) :
         ~resp.html.rows[r].holiday /\ resp.html.rows[r].tokens[i].qty = 0
  /\ result.value[3].orders = <<>>
  /\ ~result.value[3].holiday

\* the result of a cancellation that succeeded
Cancelled(r) ==
  /\ r.kind = "OrderResult"
  /\ r.success
  /\ r.message.template = "cancelled"
  /\ r.quantity = 0

\* the running call repeats the cancellation the caller has just been
\* answered: same date, same slot, quantity 0, and the site holds no order
\* for the date
RepeatsCancellation ==
  /\ calls >= 2
  /\ Ordering
  /\ args.quantity = 0
  /\ outcome = "returned"
  /\ Cancelled(result)
  /\ result.date = args.date
  /\ result.menu_type = MENU_INDEX_NAME[Slot]
  /\ Held = <<0, 0, 0>>

\* C22: when a cancellation for a date without an order is called again
\* right after it succeeded and the site accepts the order POST again, the
\* second call returns the same successful result with the cancellation
\* message and leaves the site's quantities as they were; the second call
\* has read the session file the first one wrote and probed with its cookie,
\* and when the site took the cookie it has issued no login request, read no
\* credentials and written no file.
C22_RepeatedCancellation ==
  [][(RepeatsCancellation /\ pc = "submit" /\ pc' = "done"
        /\ ~resp'.failed /\ is_success(resp')) =>
       /\ outcome' = "returned"
       /\ Cancelled(result')
       /\ result' = result
       /\ upstream' = upstream
       /\ io'.file_reads = 1
       /\ log'[1] = ProbeRequest
       /\ \E i \in 1..Len(jar') : jar'[i].name = AUTH
       /\ (session_valid' = "valid" =>
             /\ Len(log') = 3
             /\ \A i \in 1..Len(log') :
                  ~IsLoginPage(log'[i]) /\ ~IsLoginPost(log'[i])
             /\ io'.cred_reads = 0
             /\ io'.file_writes = 0
             /\ file' = FileOf("object", <<Entry(FreshAuth)>>))]_vars

\* the caller holds the result of a cancellation that succeeded after a
\* fresh login, and its second call of the same cancellation has read the
\* file the first one wrote, has had the cookie taken by the site and is
\* about to post
C22_Witness ==
  /\ RepeatsCancellation
  /\ calls = 2
  /\ op = "cancel_order"
  /\ pc = "submit"
  /\ session_valid = "valid"
  /\ log = <<ProbeRequest, DetailsRequest(OrderDate)>>
  /\ io = [cred_reads |-> 0, file_reads |-> 1, file_writes |-> 0]
  /\ file = FileOf("object", <<Entry(FreshAuth)>>)

\* what the file held at the start and the whole texts the logins write
WholeFiles ==
  {NoFile, FileOf("object", <<Entry(StaleAuth)>>)}
    \cup {FileOf("object", [i \in 1..Len(j) |-> Entry(j[i])]) :
            j \in UNION {JarsOf(p) : p \in Procs}}

\* C23: at every point at which an invocation can read the session file,
\* also while two invocations save their sessions at the same time, the file
\* is what it was at the start or the whole text of one login, never empty,
\* partial or mixed.
C23_FileAlwaysWhole == file \in WholeFiles

\* C24: a call of place_order / cancel_order that succeeded returns the
\* cancellation message when the quantity is 0 and the order message when it
\* is above 0; the message and the result's menu_type carry the display name
\* of the resolved slot; date and quantity are those of the call.
C24_SuccessResult ==
  (Ordering /\ pc = "done" /\ Succeeded) =>
    /\ (args.quantity = 0 => result.message.template = "cancelled")
    /\ (args.quantity > 0 => result.message.template = "ordered")
    /\ Slot \in {0, 1, 2}
    /\ result.menu_type = MENU_INDEX_NAME[Slot]
    /\ result.message.menu_name = MENU_INDEX_NAME[Slot]
    /\ result.menu_type \in SlotNames
    /\ result.date = args.date
    /\ result.message.date = args.date
    /\ result.quantity = args.quantity
    /\ result.message.quantity = args.quantity

\* an order placed under an alias in upper case, for a date written with "-"
C24_Witness ==
  /\ op = "place_order"
  /\ pc = "done"
  /\ Succeeded
  /\ args.menu_type = <<"A", "I">>
  /\ args.quantity = 1
  /\ args.date = D_DASH
  /\ result.menu_type = <<H_A, H_I, K_RA, K_N, K_CHI>>
  /\ result.message.template = "ordered"

\* C25: the tool that called place_order, cancel_order, get_order_status or
\* get_monthly_orders raises nothing; when the client raised or returned a
\* failed result the tool's text carries the failure sign; the success sign
\* is given only when the client returned success.
C25_ToolsNeverRaise ==
  (pc = "done" /\ ApiCall) =>
    /\ ~ToolReply.raised
    /\ (outcome = "raised" \/ FailedResult) => ToolReply.mark = MARK_FAIL
    /\ ToolReply.mark = MARK_OK => (Ordering /\ Succeeded)
    /\ Succeeded => ToolReply.mark = MARK_OK

\* the client has let the AttributeError of an ill-formed session file
\* escape and the tool has turned it into a failure text
C25_Witness ==
  /\ pc = "done"
  /\ op = "get_order_status"
  /\ outcome = "raised"
  /\ error = "AttributeError"
  /\ ToolReply = [raised |-> FALSE, mark |-> MARK_FAIL, text |-> "AttributeError"]

\* _resolve_month_query has returned a pair
MonthResolved ==
  pc = "done" /\ op = "_resolve_month_query" /\ result.kind = "tuple"

\* C26: every (year, month) pair _resolve_month_query returns has its month
\* in 1..12, so get_monthly_orders is never called with a month outside it.
C26_MonthInRange == MonthResolved => result.value[2] \in 1..12

====
